---- MODULE Spec2Model ----
(***************************************************************************)
(* The C boundary of the TaskManager example (taskmanager_wrapper.cpp) and *)
(* the two reference-counting bases (the wrapper's RefCounted<T> and the   *)
(* runtime's minimidl::RefCounted).                                        *)
(*                                                                         *)
(* A handle is the object's address: HandleToPtr / PtrToHandle are casts.  *)
(* Addresses are 1..MaxObj, the null handle is NULL.  Every object keeps   *)
(* its address for the whole run (an object identity), so a handle to a    *)
(* deleted object stays recognisable as stale.                             *)
(*                                                                         *)
(* Undefined behaviour (a call through a stale or wrongly typed handle, a  *)
(* second delete) is a choice between the process crashing and the call    *)
(* running on the memory it was given.                                     *)
(***************************************************************************)
EXTENDS Integers, Sequences, FiniteSets, TLC

VARIABLES
    kind,       \* kind[a]: the class of the object allocated at address a, "free" before
    alive,      \* alive[a]: allocated and not yet deleted
    refCount,   \* refCount[a]: RefCounted<T>::m_refCount of the DynamicString at a
    value,      \* value[a]: m_value of a DynamicString, the text property of a task or project
    owner,      \* owner[a]: the container whose shared_ptr holds the object at a, NULL if none
    destroyed,  \* destroyed[a]: how many times delete ran on the object at a (history)
    refs,       \* refs[a]: references the boundary handed to callers and not yet released (history)
    lastError,  \* lastError[t]: thread t's g_lastError
    call,       \* the most recent boundary call: who, what, on which handle, how it ended
    crashed,    \* the process died of undefined behaviour
    steps,      \* boundary calls and native creations made so far
    priority,   \* priority[a]: the priority of the task at a, as the native object stores it
    status,     \* status[a]: the status of the task at a
    tags,       \* tags[a]: the tags of the task at a, a sequence of texts
    metadata,   \* metadata[a]: the key/value pairs of the task (or of the dictionary) at a
    rcImpl,     \* RC specification: which reference-counting base the shared object has
    rcPc,       \* RC specification: rcPc[t], where thread t is inside Release
    rcSeen,     \* RC specification: rcSeen[t], what t's atomic decrement returned
    holds       \* RC specification: holds[t], references thread t owns

objVars  == <<kind, alive, refCount, value, owner, destroyed, refs>>
errVars  == <<lastError, call, crashed>>
rcVars   == <<rcImpl, rcPc, rcSeen, holds>>
taskVars == <<priority, status, tags, metadata>>
vars     == <<kind, alive, refCount, value, owner, destroyed, refs,
              lastError, call, crashed, steps, priority, status, tags, metadata,
              rcImpl, rcPc, rcSeen, holds>>

----------------------------------------------------------------------------
(* Bounds of the model *)

MaxObj == 3        \* addresses
MaxRef == 3        \* AddRef is not called on a count that has reached this
MaxSteps == 5      \* boundary calls in one run
MaxTags == 2       \* tags of one task

(* Program values *)

NULL == 0

Addr == 1..MaxObj
Handles == Addr \cup {NULL}
Threads == {"A", "B", "C"}
Callers == {"A"}

IfaceKinds == {"ITask", "IProject", "ITaskManager"}
Kinds == {"IDynamicString"} \cup IfaceKinds

\* Texts are sequences of characters, so that a length is a length.
Text == { <<>>, <<"x">> }

\* A const char* argument: a null pointer or a pointer to a text.
CStr == [null : {TRUE}, text : {<<>>}] \cup [null : {FALSE}, text : Text]

\* Messages of the error channel.
NoError == ""
ErrNullHandle == "Null handle"
ErrNullValue == "Null value"
ErrNotImplemented(T) == T \o "_Create not implemented - interface requires concrete implementation"

\* The zero values a failing call returns.
Sentinel == [rh |-> NULL, rs |-> <<>>, rn |-> 0]

----------------------------------------------------------------------------
(* Helpers *)

\* HandleToPtr<T>(handle): a static_cast, no lookup and no check.  The pointer
\* it yields is the address itself.
HandleToPtr(h) == h

\* PtrToHandle(ptr): the cast back.
PtrToHandle(a) == a

\* The pointer HandleToPtr<T> yields points to a live object of class T: the
\* only case in which using it is defined.
Resolves(h, T) == h \in Addr /\ kind[h] = T /\ alive[h]

\* operator new: the lowest address never used.
FreeAddrs == { a \in Addr : kind[a] = "free" }
NewAddr == CHOOSE a \in FreeAddrs : \A b \in FreeAddrs : a <= b

\* What the primary handle of a call to a T_ function is, at the time of the call.
ArgClass(h, T) ==
    IF h = NULL THEN "null"
    ELSE IF Resolves(h, T) THEN "live"
    ELSE IF kind[h] = T THEN "stale"
    ELSE IF kind[h] = "free" THEN "unissued"
    ELSE "mistyped"

\* g_lastError as one static std::string for the whole process, without
\* thread_local: a message set by one thread is what every thread reads.
SetError_Shared(t, msg) == lastError' = [u \in Threads |-> msg]

\* SetError(error): g_lastError = error, on the calling thread.
SetError(t, msg) == lastError' = [lastError EXCEPT ![t] = msg]

\* What the call returned to its caller, and how it ended:
\*   "ok"     it ran to its normal end (no SetError),
\*   "error"  it took an error path (SetError, then the sentinel),
\*   "quiet"  it returned early without touching the error slot,
\*   "ub"     it ran on a stale or wrongly typed pointer and returned,
\*   "crash"  it ran on a stale or wrongly typed pointer and the process died.
Ret(t, T, h, st, rh, rs, rn) ==
    call' = [t |-> t, arg |-> ArgClass(h, T), argv |-> "none", status |-> st,
             rh |-> rh, rs |-> rs, rn |-> rn]

\* What the IDynamicString_Handle arguments of a call are, taken together.
ArgvClass(args) ==
    IF NULL \in args THEN "null"
    ELSE IF \A v \in args : Resolves(v, "IDynamicString") THEN "live"
    ELSE "bad"

\* ... for a call that takes such arguments.
RetArgs(t, T, h, args, st, rh) ==
    call' = [t |-> t, arg |-> ArgClass(h, T), argv |-> ArgvClass(args), status |-> st,
             rh |-> rh, rs |-> <<>>, rn |-> 0]

RetVoid(t, T, h, st) == Ret(t, T, h, st, NULL, <<>>, 0)

NoCall == [t |-> "A", arg |-> "none", argv |-> "none", status |-> "ok",
           rh |-> NULL, rs |-> <<>>, rn |-> 0]

\* The null-handle path every I*_ function starts with.
NullHandlePath(t, T) ==
    /\ SetError(t, ErrNullHandle)
    /\ RetVoid(t, T, NULL, "error")
    /\ UNCHANGED <<objVars, crashed, rcVars, taskVars>>

\* The same path in a function that takes string handles as well.
NullHandlePathArgs(t, T, args) ==
    /\ SetError(t, ErrNullHandle)
    /\ RetArgs(t, T, NULL, args, "error", NULL)
    /\ UNCHANGED <<objVars, crashed, rcVars, taskVars>>

\* One outcome of undefined behaviour: the process dies inside the call.
Crash(t, T, h) ==
    /\ crashed' = TRUE
    /\ RetVoid(t, T, h, "crash")
    /\ UNCHANGED <<objVars, lastError, rcVars, taskVars>>

\* The other: the call reads whatever is there and returns, no error recorded.
Garbage(t, T, h) ==
    /\ RetVoid(t, T, h, "ub")
    /\ UNCHANGED <<objVars, lastError, crashed, rcVars, taskVars>>

\* The same two outcomes for a call that takes string arguments.
CrashArgs(t, T, h, args) ==
    /\ crashed' = TRUE
    /\ RetArgs(t, T, h, args, "crash", NULL)
    /\ UNCHANGED <<objVars, lastError, rcVars, taskVars>>

GarbageArgs(t, T, h, args) ==
    /\ RetArgs(t, T, h, args, "ub", NULL)
    /\ UNCHANGED <<objVars, lastError, crashed, rcVars, taskVars>>

\* Every boundary call and native creation: the process is running, and the
\* run has calls left.
Step ==
    /\ ~crashed
    /\ steps < MaxSteps
    /\ steps' = steps + 1

----------------------------------------------------------------------------
(* Reference counting *)

\* RefCounted<T>::AddRef: ++m_refCount.
RefCounted_AddRef(c) == c + 1

\* RefCounted<T>::Release: --m_refCount, the new count.
RefCounted_Decrement(c) == c - 1

\* The test of minimidl::RefCounted (the count before the decrement against
\* 1) applied to what the pre-decrement returns, the count after it.
RefCounted_Deletes_AsFetchSub(newCount) == newCount = 1

\* RefCounted<T>::Release: if (--m_refCount == 0) delete this.
RefCounted_Deletes(newCount) == newCount = 0

\* delete on the object at a: its destructor runs (the text it holds is freed
\* with it), the count stays behind in the freed memory.  What the destructor
\* of a container does to the objects it holds is native code and left out.
Delete(a) ==
    /\ alive' = [alive EXCEPT ![a] = FALSE]
    /\ destroyed' = [destroyed EXCEPT ![a] = @ + 1]
    /\ value' = [value EXCEPT ![a] = <<>>]

----------------------------------------------------------------------------
(* State after construction: no object, no error, no call *)

Init ==
    /\ kind = [a \in Addr |-> "free"]
    /\ alive = [a \in Addr |-> FALSE]
    /\ refCount = [a \in Addr |-> 0]
    /\ value = [a \in Addr |-> <<>>]
    /\ owner = [a \in Addr |-> NULL]
    /\ destroyed = [a \in Addr |-> 0]
    /\ refs = [a \in Addr |-> 0]
    /\ lastError = [t \in Threads |-> NoError]
    /\ call = NoCall
    /\ crashed = FALSE
    /\ steps = 0
    /\ priority = [a \in Addr |-> 0]
    /\ status = [a \in Addr |-> 0]
    /\ tags = [a \in Addr |-> <<>>]
    /\ metadata = [a \in Addr |-> {}]
    /\ rcImpl = "none"
    /\ rcPc = [t \in Threads |-> "idle"]
    /\ rcSeen = [t \in Threads |-> 0]
    /\ holds = [t \in Threads |-> 0]

----------------------------------------------------------------------------
(* IDynamicString *)

\* std::string::c_str() read as a C string: the characters before the first
\* NUL.  (A text that came in as a const char* holds none.)
NulAt(s) == { i \in 1..Len(s) : s[i] = "NUL" }
c_str(s) ==
    [null |-> FALSE,
     text |-> IF NulAt(s) = {} THEN s
              ELSE SubSeq(s, 1, (CHOOSE i \in NulAt(s) : \A j \in NulAt(s) : i <= j) - 1)]

\* A constructor that takes the null branch for a pointer that is not null.
DynamicString_ctor_Swapped(v) == IF v.null THEN v.text ELSE <<>>

\* DynamicString(value): m_value = value when value is not null, else empty.
DynamicString_ctor(v) == IF v.null THEN <<>> ELSE v.text

\* A RefCounted base whose count starts at 0 and waits for the first AddRef.
NewString_ZeroCount(a, txt) ==
    /\ kind' = [kind EXCEPT ![a] = "IDynamicString"]
    /\ alive' = [alive EXCEPT ![a] = TRUE]
    /\ refCount' = [refCount EXCEPT ![a] = 0]
    /\ value' = [value EXCEPT ![a] = txt]
    /\ refs' = [refs EXCEPT ![a] = 1]
    /\ UNCHANGED <<owner, destroyed>>

\* new DynamicString(value) at the next address, reference count 1.
NewString(a, txt) ==
    /\ kind' = [kind EXCEPT ![a] = "IDynamicString"]
    /\ alive' = [alive EXCEPT ![a] = TRUE]
    /\ refCount' = [refCount EXCEPT ![a] = 1]
    /\ value' = [value EXCEPT ![a] = txt]
    /\ refs' = [refs EXCEPT ![a] = 1]
    /\ UNCHANGED <<owner, destroyed>>

\* new DynamicString(value), at the next address (allocation does not fail).
IDynamicString_Create(t, v) ==
    /\ Step
    /\ FreeAddrs # {}
    /\ NewString(NewAddr, DynamicString_ctor(v))
    /\ call' = [t |-> t, arg |-> "none", argv |-> "none", status |-> "ok",
                rh |-> PtrToHandle(NewAddr), rs |-> <<>>, rn |-> 0]
    /\ UNCHANGED <<lastError, crashed, rcVars, taskVars>>

IDynamicString_AddRef(t, h) ==
    /\ Step
    /\ \/ /\ h = NULL
          /\ NullHandlePath(t, "IDynamicString")
       \/ /\ Resolves(h, "IDynamicString")
          /\ refCount[h] < MaxRef
          /\ refCount' = [refCount EXCEPT ![h] = RefCounted_AddRef(@)]
          /\ refs' = [refs EXCEPT ![h] = @ + 1]
          /\ RetVoid(t, "IDynamicString", h, "ok")
          /\ UNCHANGED <<kind, alive, value, owner, destroyed, lastError, crashed, rcVars, taskVars>>
       \/ \* a deleted string: the increment lands in freed memory
          /\ h \in Addr /\ kind[h] = "IDynamicString" /\ ~alive[h]
          /\ refCount' = [refCount EXCEPT ![h] = RefCounted_AddRef(@)]
          /\ refs' = [refs EXCEPT ![h] = @ + 1]
          /\ RetVoid(t, "IDynamicString", h, "ub")
          /\ UNCHANGED <<kind, alive, value, owner, destroyed, lastError, crashed, rcVars, taskVars>>
       \/ /\ h # NULL /\ ~Resolves(h, "IDynamicString")
          /\ Crash(t, "IDynamicString", h)
       \/ \* not a string at all: the virtual call goes somewhere else
          /\ h # NULL /\ kind[h] # "IDynamicString"
          /\ Garbage(t, "IDynamicString", h)

IDynamicString_Release(t, h) ==
    /\ Step
    /\ \/ /\ h = NULL
          /\ NullHandlePath(t, "IDynamicString")
       \/ /\ Resolves(h, "IDynamicString")
          /\ refCount' = [refCount EXCEPT ![h] = RefCounted_Decrement(@)]
          /\ refs' = [refs EXCEPT ![h] = @ - 1]
          /\ IF RefCounted_Deletes(RefCounted_Decrement(refCount[h]))
                THEN Delete(h)
                ELSE UNCHANGED <<alive, destroyed, value>>
          /\ RetVoid(t, "IDynamicString", h, "ok")
          /\ UNCHANGED <<kind, owner, lastError, crashed, rcVars, taskVars>>
       \/ \* a deleted string: the decrement lands in freed memory, and a result
          \* of zero deletes the object again
          /\ h \in Addr /\ kind[h] = "IDynamicString" /\ ~alive[h]
          /\ refCount' = [refCount EXCEPT ![h] = RefCounted_Decrement(@)]
          /\ refs' = [refs EXCEPT ![h] = @ - 1]
          /\ IF RefCounted_Deletes(RefCounted_Decrement(refCount[h]))
                THEN Delete(h)
                ELSE UNCHANGED <<alive, destroyed, value>>
          /\ RetVoid(t, "IDynamicString", h, "ub")
          /\ UNCHANGED <<kind, owner, lastError, crashed, rcVars, taskVars>>
       \/ /\ h # NULL /\ ~Resolves(h, "IDynamicString")
          /\ Crash(t, "IDynamicString", h)
       \/ /\ h # NULL /\ kind[h] # "IDynamicString"
          /\ Garbage(t, "IDynamicString", h)

\* DynamicString::GetValue: m_value.c_str().
DynamicString_GetValue(a) == c_str(value[a])

\* A length that counts the terminating NUL as well.
DynamicString_GetLength_WithNul(a) == Len(value[a]) + 1

\* DynamicString::GetLength: m_value.length().
DynamicString_GetLength(a) == Len(value[a])

IDynamicString_GetValue(t, h) ==
    /\ Step
    /\ \/ /\ h = NULL
          /\ NullHandlePath(t, "IDynamicString")
       \/ /\ Resolves(h, "IDynamicString")
          /\ Ret(t, "IDynamicString", h, "ok", NULL, DynamicString_GetValue(h).text, 0)
          /\ UNCHANGED <<objVars, lastError, crashed, rcVars, taskVars>>
       \/ /\ h # NULL /\ ~Resolves(h, "IDynamicString")
          /\ \/ Crash(t, "IDynamicString", h)
             \/ Garbage(t, "IDynamicString", h)

IDynamicString_GetLength(t, h) ==
    /\ Step
    /\ \/ /\ h = NULL
          /\ NullHandlePath(t, "IDynamicString")
       \/ /\ Resolves(h, "IDynamicString")
          /\ Ret(t, "IDynamicString", h, "ok", NULL, <<>>, DynamicString_GetLength(h))
          /\ UNCHANGED <<objVars, lastError, crashed, rcVars, taskVars>>
       \/ /\ h # NULL /\ ~Resolves(h, "IDynamicString")
          /\ \/ Crash(t, "IDynamicString", h)
             \/ Garbage(t, "IDynamicString", h)

\* DynamicString::SetValue: m_value = value ? value : "".
DynamicString_SetValue(v) == IF v.null THEN <<>> ELSE v.text

IDynamicString_SetValue(t, h, v) ==
    /\ Step
    /\ \/ /\ h = NULL
          /\ NullHandlePath(t, "IDynamicString")
       \/ /\ Resolves(h, "IDynamicString")
          /\ value' = [value EXCEPT ![h] = DynamicString_SetValue(v)]
          /\ RetVoid(t, "IDynamicString", h, "ok")
          /\ UNCHANGED <<kind, alive, refCount, owner, destroyed, refs, lastError, crashed, rcVars, taskVars>>
       \/ /\ h # NULL /\ ~Resolves(h, "IDynamicString")
          /\ \/ Crash(t, "IDynamicString", h)
             \/ Garbage(t, "IDynamicString", h)

----------------------------------------------------------------------------
(* ITask, IProject, ITaskManager: the lifecycle functions *)

\* The native side hands out an object it made (the boundary's own T_Create
\* makes none).  It holds no text and belongs to no container.
NativeCreate(T) ==
    /\ Step
    /\ FreeAddrs # {}
    /\ kind' = [kind EXCEPT ![NewAddr] = T]
    /\ alive' = [alive EXCEPT ![NewAddr] = TRUE]
    /\ refs' = [refs EXCEPT ![NewAddr] = 1]
    /\ UNCHANGED <<refCount, value, owner, destroyed, errVars, rcVars, taskVars>>

\* T_Create: SetError("T_Create not implemented ..."), return nullptr.
Iface_Create(t, T) ==
    /\ Step
    /\ SetError(t, ErrNotImplemented(T))
    /\ call' = [NoCall EXCEPT !.t = t, !.status = "error"]
    /\ UNCHANGED <<objVars, crashed, rcVars, taskVars>>

\* T_Release: delete obj, whatever the count.
Iface_Release(t, T, h) ==
    /\ Step
    /\ \/ /\ h = NULL
          /\ NullHandlePath(t, T)
       \/ /\ Resolves(h, T)
          /\ Delete(h)
          /\ refs' = [refs EXCEPT ![h] = @ - 1]
          /\ RetVoid(t, T, h, "ok")
          /\ UNCHANGED <<kind, refCount, owner, lastError, crashed, rcVars, taskVars>>
       \/ \* an object deleted before: the second delete may go through
          /\ h # NULL /\ kind[h] = T /\ ~alive[h]
          /\ Delete(h)
          /\ refs' = [refs EXCEPT ![h] = @ - 1]
          /\ RetVoid(t, T, h, "ub")
          /\ UNCHANGED <<kind, refCount, owner, lastError, crashed, rcVars, taskVars>>
       \/ /\ h # NULL /\ ~Resolves(h, T)
          /\ Crash(t, T, h)
       \/ /\ h # NULL /\ kind[h] # T
          /\ Garbage(t, T, h)

\* T_AddRef: a placeholder, nothing after the null check (the handle is not
\* even dereferenced).  The caller now counts one reference more.
Iface_AddRef(t, T, h) ==
    /\ Step
    /\ \/ /\ h = NULL
          /\ NullHandlePath(t, T)
       \/ /\ Resolves(h, T)
          /\ refs[h] < MaxRef
          /\ refs' = [refs EXCEPT ![h] = @ + 1]
          /\ RetVoid(t, T, h, "ok")
          /\ UNCHANGED <<kind, alive, refCount, value, owner, destroyed, lastError, crashed, rcVars, taskVars>>
       \/ /\ h # NULL /\ ~Resolves(h, T)
          /\ RetVoid(t, T, h, "ok")
          /\ UNCHANGED <<objVars, lastError, crashed, rcVars, taskVars>>

ITask_Create(t) == Iface_Create(t, "ITask")
ITask_Release(t, h) == Iface_Release(t, "ITask", h)
ITask_AddRef(t, h) == Iface_AddRef(t, "ITask", h)
IProject_Create(t) == Iface_Create(t, "IProject")
IProject_Release(t, h) == Iface_Release(t, "IProject", h)
IProject_AddRef(t, h) == Iface_AddRef(t, "IProject", h)
ITaskManager_Create(t) == Iface_Create(t, "ITaskManager")
ITaskManager_Release(t, h) == Iface_Release(t, "ITaskManager", h)
ITaskManager_AddRef(t, h) == Iface_AddRef(t, "ITaskManager", h)

----------------------------------------------------------------------------
(* String properties: ITask description, IProject name *)

\* T_Get<Name>: a new DynamicString holding the property's text.
Iface_GetText(t, T, h) ==
    /\ Step
    /\ \/ /\ h = NULL
          /\ NullHandlePath(t, T)
       \/ /\ Resolves(h, T)
          /\ FreeAddrs # {}
          /\ NewString(NewAddr, DynamicString_ctor(c_str(value[h])))
          /\ Ret(t, T, h, "ok", PtrToHandle(NewAddr), <<>>, 0)
          /\ UNCHANGED <<lastError, crashed, rcVars, taskVars>>
       \/ /\ h # NULL /\ ~Resolves(h, T)
          /\ \/ Crash(t, T, h)
             \/ Garbage(t, T, h)

\* A setter that takes the string over: it releases the value after the copy.
Iface_SetText_Releasing(t, T, h, v) ==
    /\ Step
    /\ \/ /\ h = NULL
          /\ NullHandlePathArgs(t, T, {v})
       \/ /\ h # NULL /\ v = NULL
          /\ SetError(t, ErrNullValue)
          /\ RetArgs(t, T, h, {v}, "error", NULL)
          /\ UNCHANGED <<objVars, crashed, rcVars, taskVars>>
       \/ /\ Resolves(h, T) /\ Resolves(v, "IDynamicString")
          /\ refCount' = [refCount EXCEPT ![v] = RefCounted_Decrement(@)]
          /\ alive' = [alive EXCEPT ![v] = ~RefCounted_Deletes(RefCounted_Decrement(refCount[v]))]
          /\ value' = [value EXCEPT ![h] = DynamicString_GetValue(HandleToPtr(v)).text]
          /\ RetArgs(t, T, h, {v}, "ok", NULL)
          /\ UNCHANGED <<kind, owner, destroyed, refs, lastError, crashed, rcVars, taskVars>>
       \/ /\ h # NULL /\ v # NULL
          /\ ~(Resolves(h, T) /\ Resolves(v, "IDynamicString"))
          /\ \/ CrashArgs(t, T, h, {v})
             \/ GarbageArgs(t, T, h, {v})

\* A setter that reads a null value as the empty text, as
\* DynamicString::SetValue does, before it reports it.
Iface_SetText_NullAsEmpty(t, T, h, v) ==
    /\ Step
    /\ \/ /\ h = NULL
          /\ NullHandlePathArgs(t, T, {v})
       \/ /\ h # NULL /\ v = NULL
          /\ SetError(t, ErrNullValue)
          /\ RetArgs(t, T, h, {v}, "error", NULL)
          /\ value' = [value EXCEPT ![h] = <<>>]
          /\ UNCHANGED <<kind, alive, refCount, owner, destroyed, refs, crashed, rcVars, taskVars>>
       \/ /\ Resolves(h, T) /\ Resolves(v, "IDynamicString")
          /\ value' = [value EXCEPT ![h] = DynamicString_GetValue(HandleToPtr(v)).text]
          /\ RetArgs(t, T, h, {v}, "ok", NULL)
          /\ UNCHANGED <<kind, alive, refCount, owner, destroyed, refs, lastError, crashed, rcVars, taskVars>>
       \/ /\ h # NULL /\ v # NULL
          /\ ~(Resolves(h, T) /\ Resolves(v, "IDynamicString"))
          /\ \/ CrashArgs(t, T, h, {v})
             \/ GarbageArgs(t, T, h, {v})

\* A setter that looks at the value before it looks at the handle.
Iface_SetText_ValueFirst(t, T, h, v) ==
    /\ Step
    /\ \/ /\ v = NULL
          /\ SetError(t, ErrNullValue)
          /\ RetArgs(t, T, h, {v}, "error", NULL)
          /\ UNCHANGED <<objVars, crashed, rcVars, taskVars>>
       \/ /\ v # NULL /\ h = NULL
          /\ NullHandlePathArgs(t, T, {v})
       \/ /\ Resolves(h, T) /\ Resolves(v, "IDynamicString")
          /\ value' = [value EXCEPT ![h] = DynamicString_GetValue(HandleToPtr(v)).text]
          /\ RetArgs(t, T, h, {v}, "ok", NULL)
          /\ UNCHANGED <<kind, alive, refCount, owner, destroyed, refs, lastError, crashed, rcVars, taskVars>>
       \/ /\ h # NULL /\ v # NULL
          /\ ~(Resolves(h, T) /\ Resolves(v, "IDynamicString"))
          /\ \/ CrashArgs(t, T, h, {v})
             \/ GarbageArgs(t, T, h, {v})

\* T_Set<Name>: both handles null-checked, then the value's text is copied.
Iface_SetText(t, T, h, v) ==
    /\ Step
    /\ \/ /\ h = NULL
          /\ NullHandlePathArgs(t, T, {v})
       \/ /\ h # NULL /\ v = NULL
          /\ SetError(t, ErrNullValue)
          /\ RetArgs(t, T, h, {v}, "error", NULL)
          /\ UNCHANGED <<objVars, crashed, rcVars, taskVars>>
       \/ /\ Resolves(h, T) /\ Resolves(v, "IDynamicString")
          /\ value' = [value EXCEPT ![h] = DynamicString_GetValue(HandleToPtr(v)).text]
          /\ RetArgs(t, T, h, {v}, "ok", NULL)
          /\ UNCHANGED <<kind, alive, refCount, owner, destroyed, refs, lastError, crashed, rcVars, taskVars>>
       \/ /\ h # NULL /\ v # NULL
          /\ ~(Resolves(h, T) /\ Resolves(v, "IDynamicString"))
          /\ \/ CrashArgs(t, T, h, {v})
             \/ GarbageArgs(t, T, h, {v})

ITask_Getdescription(t, h) == Iface_GetText(t, "ITask", h)
ITask_Setdescription(t, h, v) == Iface_SetText(t, "ITask", h, v)
IProject_Getname(t, h) == Iface_GetText(t, "IProject", h)
IProject_Setname(t, h, v) == Iface_SetText(t, "IProject", h, v)

----------------------------------------------------------------------------
(* Methods that return an object a container owns *)

\* What a container of class T holds.
ChildKind(T) == IF T = "IProject" THEN "ITask" ELSE "IProject"

\* The objects the container at h holds a shared_ptr to.
Children(h) == { a \in Addr : owner[a] = h }

\* IProject_CreateTask, ITaskManager_CreateProject: the native method makes
\* the object and keeps it; the boundary returns result.get(), the raw
\* pointer, and adds no reference for the caller.
Container_Create(t, T, h, name, text) ==
    /\ Step
    /\ \/ /\ h = NULL
          /\ NullHandlePath(t, T)
       \/ /\ Resolves(h, T)
          /\ Resolves(name, "IDynamicString") /\ Resolves(text, "IDynamicString")
          /\ FreeAddrs # {}
          /\ kind' = [kind EXCEPT ![NewAddr] = ChildKind(T)]
          /\ alive' = [alive EXCEPT ![NewAddr] = TRUE]
          /\ value' = [value EXCEPT ![NewAddr] = value[HandleToPtr(text)]]
          /\ owner' = [owner EXCEPT ![NewAddr] = HandleToPtr(h)]
          /\ refs' = [refs EXCEPT ![NewAddr] = 1]
          /\ RetArgs(t, T, h, {name, text}, "ok", PtrToHandle(NewAddr))
          /\ UNCHANGED <<refCount, destroyed, lastError, crashed, rcVars, taskVars>>
       \/ /\ h # NULL
          /\ ~(/\ Resolves(h, T)
               /\ Resolves(name, "IDynamicString")
               /\ Resolves(text, "IDynamicString"))
          /\ \/ CrashArgs(t, T, h, {name, text})
             \/ GarbageArgs(t, T, h, {name, text})

\* IProject_GetTask, ITaskManager_GetProject: the native lookup yields one of
\* the container's objects or an empty pointer; the boundary returns
\* result.get() and adds no reference for the caller.
Container_Get(t, T, h, id) ==
    /\ Step
    /\ \/ /\ h = NULL
          /\ NullHandlePath(t, T)
       \/ /\ Resolves(h, T) /\ Resolves(id, "IDynamicString")
          /\ \E a \in Children(h) :
                /\ refs[a] < MaxRef
                /\ refs' = [refs EXCEPT ![a] = @ + 1]
                /\ RetArgs(t, T, h, {id}, "ok", PtrToHandle(a))
          /\ UNCHANGED <<kind, alive, refCount, value, owner, destroyed, lastError, crashed, rcVars, taskVars>>
       \/ /\ Resolves(h, T) /\ Resolves(id, "IDynamicString")
          /\ RetArgs(t, T, h, {id}, "ok", NULL)
          /\ UNCHANGED <<objVars, lastError, crashed, rcVars, taskVars>>
       \/ /\ h # NULL
          /\ ~(Resolves(h, T) /\ Resolves(id, "IDynamicString"))
          /\ \/ CrashArgs(t, T, h, {id})
             \/ GarbageArgs(t, T, h, {id})

IProject_CreateTask(t, h, title, description) ==
    Container_Create(t, "IProject", h, title, description)
IProject_GetTask(t, h, taskId) == Container_Get(t, "IProject", h, taskId)
ITaskManager_CreateProject(t, h, name) ==
    Container_Create(t, "ITaskManager", h, name, name)
ITaskManager_GetProject(t, h, projectId) == Container_Get(t, "ITaskManager", h, projectId)

----------------------------------------------------------------------------
(* Collection protocol *)

\* TaskManagerArray_Count, TaskManagerDict_Count, TaskManagerDict_Next, ...:
\* if (!handle) return 0 (false); return 0 (false).  The handle is not used
\* and the error slot not written.
Collection_Stub(t, T, h) ==
    /\ Step
    /\ \/ /\ h = NULL
          /\ Ret(t, T, h, "quiet", NULL, <<>>, 0)
       \/ /\ h # NULL
          /\ Ret(t, T, h, "ok", NULL, <<>>, 0)
    /\ UNCHANGED <<objVars, lastError, crashed, rcVars, taskVars>>

\* TaskManagerArray_Release, TaskManagerDict_Release, TaskManagerSet_Release:
\* delete HandleToPtr<ArrayIterator>(handle), a no-op on the null handle.  No
\* function of the boundary makes an iterator, so a handle that is not null
\* is a handle to something else.
Collection_Release(t, T, h) ==
    /\ Step
    /\ \/ /\ h = NULL
          /\ Ret(t, T, h, "quiet", NULL, <<>>, 0)
          /\ UNCHANGED <<objVars, lastError, crashed, rcVars, taskVars>>
       \/ /\ h # NULL /\ ~Resolves(h, T)
          /\ \/ Crash(t, T, h)
             \/ Garbage(t, T, h)

TaskManagerArray_Release(t, h) == Collection_Release(t, "ArrayIterator", h)
TaskManagerArray_Count(t, h) == Collection_Stub(t, "ArrayIterator", h)
TaskManagerDict_Next(t, h) == Collection_Stub(t, "DictIterator", h)

----------------------------------------------------------------------------
(* Error channel *)

\* TaskManager_GetLastError: g_lastError.c_str() of the calling thread.
TaskManager_GetLastError(t) == lastError[t]

\* g_lastError.empty() written for g_lastError.clear(): the slot is only looked at.
TaskManager_ClearError_Empty(t) ==
    /\ Step
    /\ call' = [NoCall EXCEPT !.t = t]
    /\ UNCHANGED <<objVars, lastError, crashed, rcVars, taskVars>>

\* TaskManager_ClearError: g_lastError.clear(), on the calling thread.
TaskManager_ClearError(t) ==
    /\ Step
    /\ lastError' = [lastError EXCEPT ![t] = NoError]
    /\ call' = [NoCall EXCEPT !.t = t]
    /\ UNCHANGED <<objVars, crashed, rcVars, taskVars>>

----------------------------------------------------------------------------
(* Several threads on the count of one object.                             *)
(*                                                                         *)
(* The object at RcObj derives from the wrapper's RefCounted<T> or from    *)
(* the runtime's minimidl::RefCounted.  Both keep the count in a           *)
(* std::atomic<int32_t>: an increment or a decrement is one step.  Release *)
(* is two steps, the decrement and then the test of what it returned.  A   *)
(* thread calls AddRef or Release only while it owns a reference; the      *)
(* reference AddRef makes goes to the thread it is made for.               *)

RcObj == 1

\* minimidl::RefCounted::AddRef: m_refCount.fetch_add(1).
Runtime_AddRef(c) == c + 1

\* minimidl::RefCounted::Release: m_refCount.fetch_sub(1) leaves c - 1.
Runtime_Decrement(c) == c - 1

\* The test of the wrapper's RefCounted<T> (against 0) applied to what
\* fetch_sub returns, the count before the decrement.
Runtime_Deletes_AsPreDecrement(oldCount) == oldCount = 0

\* minimidl::RefCounted::Release: if (fetch_sub(1) == 1) delete this; the
\* value tested is the count before the decrement.
Runtime_Deletes(oldCount) == oldCount = 1

\* What the atomic decrement hands to the test that follows it.
RC_Returned(impl, c) ==
    IF impl = "wrapper" THEN RefCounted_Decrement(c) ELSE c

RC_Deletes(impl, seen) ==
    IF impl = "wrapper" THEN RefCounted_Deletes(seen) ELSE Runtime_Deletes(seen)

InitRC ==
    /\ kind = [a \in Addr |-> IF a = RcObj THEN "IDynamicString" ELSE "free"]
    /\ alive = [a \in Addr |-> a = RcObj]
    /\ refCount = [a \in Addr |-> IF a = RcObj THEN 1 ELSE 0]
    /\ value = [a \in Addr |-> <<>>]
    /\ owner = [a \in Addr |-> NULL]
    /\ destroyed = [a \in Addr |-> 0]
    /\ refs = [a \in Addr |-> IF a = RcObj THEN 1 ELSE 0]
    /\ lastError = [t \in Threads |-> NoError]
    /\ call = NoCall
    /\ crashed = FALSE
    /\ steps = 0
    /\ priority = [a \in Addr |-> 0]
    /\ status = [a \in Addr |-> 0]
    /\ tags = [a \in Addr |-> <<>>]
    /\ metadata = [a \in Addr |-> {}]
    /\ rcImpl \in {"wrapper", "runtime"}
    /\ rcPc = [t \in Threads |-> "idle"]
    /\ rcSeen = [t \in Threads |-> 0]
    /\ \E t \in Threads : holds = [u \in Threads |-> IF u = t THEN 1 ELSE 0]

\* Thread t, owning a reference, calls AddRef; the new reference is u's.
RC_AddRef(t, u) ==
    /\ rcPc[t] = "idle"
    /\ holds[t] > 0
    /\ refCount[RcObj] < MaxRef
    /\ refCount' = [refCount EXCEPT ![RcObj] =
                      IF rcImpl = "wrapper" THEN RefCounted_AddRef(@) ELSE Runtime_AddRef(@)]
    /\ refs' = [refs EXCEPT ![RcObj] = @ + 1]
    /\ holds' = [holds EXCEPT ![u] = @ + 1]
    /\ UNCHANGED <<kind, alive, value, owner, destroyed, errVars, steps, taskVars, rcImpl, rcPc, rcSeen>>

\* Thread t gives up one reference: the atomic decrement.
RC_Release_Decrement(t) ==
    /\ rcPc[t] = "idle"
    /\ holds[t] > 0
    /\ refCount' = [refCount EXCEPT ![RcObj] =
                      IF rcImpl = "wrapper" THEN RefCounted_Decrement(@) ELSE Runtime_Decrement(@)]
    /\ refs' = [refs EXCEPT ![RcObj] = @ - 1]
    /\ rcSeen' = [rcSeen EXCEPT ![t] = RC_Returned(rcImpl, refCount[RcObj])]
    /\ holds' = [holds EXCEPT ![t] = @ - 1]
    /\ rcPc' = [rcPc EXCEPT ![t] = "test"]
    /\ UNCHANGED <<kind, alive, value, owner, destroyed, errVars, steps, taskVars, rcImpl>>

\* ... and the test of what the decrement returned: delete this, or return.
RC_Release_Test(t) ==
    /\ rcPc[t] = "test"
    /\ IF RC_Deletes(rcImpl, rcSeen[t])
          THEN Delete(RcObj)
          ELSE UNCHANGED <<alive, destroyed, value>>
    /\ rcPc' = [rcPc EXCEPT ![t] = "idle"]
    /\ UNCHANGED <<kind, refCount, owner, refs, errVars, steps, taskVars, rcImpl, rcSeen, holds>>

NextRC ==
    \/ \E t, u \in Threads : RC_AddRef(t, u)
    \/ \E t \in Threads : RC_Release_Decrement(t)
    \/ \E t \in Threads : RC_Release_Test(t)

SpecRC == InitRC /\ [][NextRC]_vars

----------------------------------------------------------------------------
(* The two reference counts side by side.                                  *)
(*                                                                         *)
(* The object at WrapperObj derives from the wrapper's RefCounted<T>, the  *)
(* one at RuntimeObj from the runtime's minimidl::RefCounted; both are     *)
(* constructed with a count of 1.  Every call is made on both: AddRef on   *)
(* the one and on the other, Release on the one and on the other.  A       *)
(* thread calls only while it owns a reference (to both).                  *)

WrapperObj == 1
RuntimeObj == 2

InitEq ==
    /\ kind = [a \in Addr |-> IF a = WrapperObj THEN "IDynamicString"
                              ELSE IF a = RuntimeObj THEN "minimidl::RefCounted"
                              ELSE "free"]
    /\ alive = [a \in Addr |-> a \in {WrapperObj, RuntimeObj}]
    /\ refCount = [a \in Addr |-> IF a \in {WrapperObj, RuntimeObj} THEN 1 ELSE 0]
    /\ value = [a \in Addr |-> <<>>]
    /\ owner = [a \in Addr |-> NULL]
    /\ destroyed = [a \in Addr |-> 0]
    /\ refs = [a \in Addr |-> IF a \in {WrapperObj, RuntimeObj} THEN 1 ELSE 0]
    /\ lastError = [t \in Threads |-> NoError]
    /\ call = NoCall
    /\ crashed = FALSE
    /\ steps = 0
    /\ priority = [a \in Addr |-> 0]
    /\ status = [a \in Addr |-> 0]
    /\ tags = [a \in Addr |-> <<>>]
    /\ metadata = [a \in Addr |-> {}]
    /\ rcImpl = "wrapper"
    /\ rcPc = [t \in Threads |-> "idle"]
    /\ rcSeen = [t \in Threads |-> 0]
    /\ \E t \in Threads : holds = [u \in Threads |-> IF u = t THEN 1 ELSE 0]

\* Thread t calls AddRef on both objects; the new reference is u's.
Eq_AddRef(t, u) ==
    /\ Step
    /\ holds[t] > 0
    /\ refCount[WrapperObj] < MaxRef
    /\ refCount[RuntimeObj] < MaxRef
    /\ refCount' = [refCount EXCEPT ![WrapperObj] = RefCounted_AddRef(@),
                                    ![RuntimeObj] = Runtime_AddRef(@)]
    /\ refs' = [a \in Addr |-> IF a \in {WrapperObj, RuntimeObj} THEN refs[a] + 1 ELSE refs[a]]
    /\ holds' = [holds EXCEPT ![u] = @ + 1]
    /\ call' = [NoCall EXCEPT !.t = t, !.arg = "live", !.status = "quiet"]
    /\ UNCHANGED <<kind, alive, value, owner, destroyed, lastError, crashed,
                   taskVars, rcImpl, rcPc, rcSeen>>

\* The objects a Release on both deletes: the wrapper's tests the count its
\* pre-decrement leaves, the runtime's the count fetch_sub found.
Eq_Deleted ==
    { a \in {WrapperObj} : RefCounted_Deletes(RefCounted_Decrement(refCount[a])) }
        \cup { a \in {RuntimeObj} : Runtime_Deletes(refCount[a]) }

\* Thread t calls Release on both objects.
Eq_Release(t) ==
    /\ Step
    /\ holds[t] > 0
    /\ refCount' = [refCount EXCEPT ![WrapperObj] = RefCounted_Decrement(@),
                                    ![RuntimeObj] = Runtime_Decrement(@)]
    /\ refs' = [a \in Addr |-> IF a \in {WrapperObj, RuntimeObj} THEN refs[a] - 1 ELSE refs[a]]
    /\ holds' = [holds EXCEPT ![t] = @ - 1]
    /\ alive' = [a \in Addr |-> alive[a] /\ a \notin Eq_Deleted]
    /\ destroyed' = [a \in Addr |-> IF a \in Eq_Deleted THEN destroyed[a] + 1 ELSE destroyed[a]]
    /\ call' = [NoCall EXCEPT !.t = t, !.arg = "live", !.status = "ok"]
    /\ UNCHANGED <<kind, value, owner, lastError, crashed, taskVars, rcImpl, rcPc, rcSeen>>

NextEq ==
    \/ \E t, u \in Threads : Eq_AddRef(t, u)
    \/ \E t \in Threads : Eq_Release(t)

SpecEq == InitEq /\ [][NextEq]_vars

----------------------------------------------------------------------------
Next ==
    \/ \E t \in Callers, v \in CStr : IDynamicString_Create(t, v)
    \/ \E t \in Callers, h \in Handles : IDynamicString_AddRef(t, h)
    \/ \E t \in Callers, h \in Handles : IDynamicString_Release(t, h)
    \/ \E t \in Callers, h \in Handles : IDynamicString_GetValue(t, h)
    \/ \E t \in Callers, h \in Handles : IDynamicString_GetLength(t, h)
    \/ \E t \in Callers, h \in Handles, v \in CStr : IDynamicString_SetValue(t, h, v)
    \/ \E T \in IfaceKinds : NativeCreate(T)
    \/ \E t \in Callers : ITask_Create(t)
    \/ \E t \in Callers, h \in Handles : ITask_Release(t, h)
    \/ \E t \in Callers, h \in Handles : ITask_AddRef(t, h)
    \/ \E t \in Callers : IProject_Create(t)
    \/ \E t \in Callers, h \in Handles : IProject_Release(t, h)
    \/ \E t \in Callers, h \in Handles : IProject_AddRef(t, h)
    \/ \E t \in Callers : ITaskManager_Create(t)
    \/ \E t \in Callers, h \in Handles : ITaskManager_Release(t, h)
    \/ \E t \in Callers, h \in Handles : ITaskManager_AddRef(t, h)
    \/ \E t \in Callers, h \in Handles : ITask_Getdescription(t, h)
    \/ \E t \in Callers, h, v \in Handles : ITask_Setdescription(t, h, v)
    \/ \E t \in Callers, h \in Handles : IProject_Getname(t, h)
    \/ \E t \in Callers, h, v \in Handles : IProject_Setname(t, h, v)
    \/ \E t \in Callers, h, s \in Handles : IProject_CreateTask(t, h, s, s)
    \/ \E t \in Callers, h, s \in Handles : IProject_GetTask(t, h, s)
    \/ \E t \in Callers, h, s \in Handles : ITaskManager_CreateProject(t, h, s)
    \/ \E t \in Callers, h, s \in Handles : ITaskManager_GetProject(t, h, s)
    \/ \E t \in Callers, h \in Handles : TaskManagerArray_Release(t, h)
    \/ \E t \in Callers, h \in Handles : TaskManagerArray_Count(t, h)
    \/ \E t \in Callers, h \in Handles : TaskManagerDict_Next(t, h)
    \/ \E t \in Callers : TaskManager_ClearError(t)

Spec == Init /\ [][Next]_vars

----------------------------------------------------------------------------
(* ITask: enum properties, tags, methods, metadata.                        *)
(*                                                                         *)
(* The native object (TaskManager::ITask) keeps what its setters are given *)
(* and gives it back from its getters.                                     *)

\* The enumerators the interface description declares for Priority and Status.
DeclaredPriority == 0..3
DeclaredStatus == 0..3
StatusCompleted == 2

\* The integers a caller passes for an enum parameter.
EnumInputs == {0, 2, 5}

ErrIndexOutOfBounds == "Index out of bounds"

\* e.what() of the std::exception a native method throws.
ErrNative == "native failure"

\* How a call into the native object can end: it returns, it throws an
\* exception derived from std::exception, or it throws something else.
NativeOutcomes == {"returns", "std::exception", "other"}

\* An exception no handler of the boundary function catches leaves it.
Uncaught(t, T, h) ==
    /\ crashed' = TRUE
    /\ RetVoid(t, T, h, "fault")
    /\ UNCHANGED <<objVars, lastError, rcVars, taskVars>>

\* catch (const std::exception& e) { SetError(e.what()); return {}; }
Caught(t, T, h) ==
    /\ SetError(t, ErrNative)
    /\ RetVoid(t, T, h, "error")
    /\ UNCHANGED <<objVars, crashed, rcVars, taskVars>>

ITask_Getpriority(t, h) ==
    /\ Step
    /\ \/ /\ h = NULL
          /\ NullHandlePath(t, "ITask")
       \/ /\ Resolves(h, "ITask")
          /\ Ret(t, "ITask", h, "ok", NULL, <<>>, priority[h])
          /\ UNCHANGED <<objVars, lastError, crashed, rcVars, taskVars>>
       \/ /\ h # NULL /\ ~Resolves(h, "ITask")
          /\ \/ Crash(t, "ITask", h)
             \/ Garbage(t, "ITask", h)

\* obj->set_priority(static_cast<TaskManager::Priority>(value)): the integer
\* goes to the native object as it came.
ITask_Setpriority(t, h, v) ==
    /\ Step
    /\ \/ /\ h = NULL
          /\ NullHandlePath(t, "ITask")
       \/ /\ Resolves(h, "ITask")
          /\ priority' = [priority EXCEPT ![h] = v]
          /\ RetVoid(t, "ITask", h, "ok")
          /\ UNCHANGED <<objVars, lastError, crashed, rcVars, status, tags, metadata>>
       \/ /\ h # NULL /\ ~Resolves(h, "ITask")
          /\ \/ Crash(t, "ITask", h)
             \/ Garbage(t, "ITask", h)

ITask_Setstatus(t, h, v) ==
    /\ Step
    /\ \/ /\ h = NULL
          /\ NullHandlePath(t, "ITask")
       \/ /\ Resolves(h, "ITask")
          /\ status' = [status EXCEPT ![h] = v]
          /\ RetVoid(t, "ITask", h, "ok")
          /\ UNCHANGED <<objVars, lastError, crashed, rcVars, priority, tags, metadata>>
       \/ /\ h # NULL /\ ~Resolves(h, "ITask")
          /\ \/ Crash(t, "ITask", h)
             \/ Garbage(t, "ITask", h)

ITask_Gettags_Count(t, h) ==
    /\ Step
    /\ \/ /\ h = NULL
          /\ NullHandlePath(t, "ITask")
       \/ /\ Resolves(h, "ITask")
          /\ Ret(t, "ITask", h, "ok", NULL, <<>>, Len(tags[h]))
          /\ UNCHANGED <<objVars, lastError, crashed, rcVars, taskVars>>
       \/ /\ h # NULL /\ ~Resolves(h, "ITask")
          /\ \/ Crash(t, "ITask", h)
             \/ Garbage(t, "ITask", h)

\* The bounds check written index > array.size(): the index one past the end
\* gets through and reads whatever follows the array.
ITask_Gettags_Item_OffByOne(t, h, index) ==
    /\ Step
    /\ \/ /\ h = NULL
          /\ NullHandlePath(t, "ITask")
       \/ /\ Resolves(h, "ITask")
          /\ index > Len(tags[h])
          /\ SetError(t, ErrIndexOutOfBounds)
          /\ RetVoid(t, "ITask", h, "error")
          /\ UNCHANGED <<objVars, crashed, rcVars, taskVars>>
       \/ /\ Resolves(h, "ITask")
          /\ index <= Len(tags[h])
          /\ FreeAddrs # {}
          /\ NewString(NewAddr, IF index < Len(tags[h])
                                   THEN DynamicString_ctor(c_str(tags[h][index + 1]))
                                   ELSE <<>>)
          /\ Ret(t, "ITask", h, "ok", PtrToHandle(NewAddr), <<>>, 0)
          /\ UNCHANGED <<lastError, crashed, rcVars, taskVars>>
       \/ /\ h # NULL /\ ~Resolves(h, "ITask")
          /\ \/ Crash(t, "ITask", h)
             \/ Garbage(t, "ITask", h)

\* index is a size_t, counted from 0.
ITask_Gettags_Item(t, h, index) ==
    /\ Step
    /\ \/ /\ h = NULL
          /\ NullHandlePath(t, "ITask")
       \/ /\ Resolves(h, "ITask")
          /\ index >= Len(tags[h])
          /\ SetError(t, ErrIndexOutOfBounds)
          /\ RetVoid(t, "ITask", h, "error")
          /\ UNCHANGED <<objVars, crashed, rcVars, taskVars>>
       \/ /\ Resolves(h, "ITask")
          /\ index < Len(tags[h])
          /\ FreeAddrs # {}
          /\ NewString(NewAddr, DynamicString_ctor(c_str(tags[h][index + 1])))
          /\ Ret(t, "ITask", h, "ok", PtrToHandle(NewAddr), <<>>, 0)
          /\ UNCHANGED <<lastError, crashed, rcVars, taskVars>>
       \/ /\ h # NULL /\ ~Resolves(h, "ITask")
          /\ \/ Crash(t, "ITask", h)
             \/ Garbage(t, "ITask", h)

\* obj->get_tags().clear() written for obj->set_tags({}): the copy that
\* get_tags returns is cleared, the task keeps its tags.
ITask_Settags_Clear_OnCopy(t, h) ==
    /\ Step
    /\ \/ /\ h = NULL
          /\ NullHandlePath(t, "ITask")
       \/ /\ Resolves(h, "ITask")
          /\ RetVoid(t, "ITask", h, "ok")
          /\ UNCHANGED <<objVars, lastError, crashed, rcVars, taskVars>>
       \/ /\ h # NULL /\ ~Resolves(h, "ITask")
          /\ \/ Crash(t, "ITask", h)
             \/ Garbage(t, "ITask", h)

\* obj->set_tags({}).
ITask_Settags_Clear(t, h) ==
    /\ Step
    /\ \/ /\ h = NULL
          /\ NullHandlePath(t, "ITask")
       \/ /\ Resolves(h, "ITask")
          /\ tags' = [tags EXCEPT ![h] = <<>>]
          /\ RetVoid(t, "ITask", h, "ok")
          /\ UNCHANGED <<objVars, lastError, crashed, rcVars, priority, status, metadata>>
       \/ /\ h # NULL /\ ~Resolves(h, "ITask")
          /\ \/ Crash(t, "ITask", h)
             \/ Garbage(t, "ITask", h)

\* An Add that starts from an empty array instead of obj->get_tags(): the
\* value replaces the tags.
ITask_Settags_Add_Replacing(t, h, v) ==
    /\ Step
    /\ \/ /\ h = NULL
          /\ NullHandlePathArgs(t, "ITask", {v})
       \/ /\ h # NULL /\ v = NULL
          /\ SetError(t, ErrNullValue)
          /\ RetArgs(t, "ITask", h, {v}, "error", NULL)
          /\ UNCHANGED <<objVars, crashed, rcVars, taskVars>>
       \/ /\ Resolves(h, "ITask") /\ Resolves(v, "IDynamicString")
          /\ Len(tags[h]) < MaxTags
          /\ tags' = [tags EXCEPT ![h] = << DynamicString_GetValue(HandleToPtr(v)).text >>]
          /\ RetArgs(t, "ITask", h, {v}, "ok", NULL)
          /\ UNCHANGED <<objVars, lastError, crashed, rcVars, priority, status, metadata>>
       \/ /\ h # NULL /\ v # NULL
          /\ ~(Resolves(h, "ITask") /\ Resolves(v, "IDynamicString"))
          /\ \/ CrashArgs(t, "ITask", h, {v})
             \/ GarbageArgs(t, "ITask", h, {v})

\* array = obj->get_tags(); array.push_back(str->GetValue()); obj->set_tags(array).
ITask_Settags_Add(t, h, v) ==
    /\ Step
    /\ \/ /\ h = NULL
          /\ NullHandlePathArgs(t, "ITask", {v})
       \/ /\ h # NULL /\ v = NULL
          /\ SetError(t, ErrNullValue)
          /\ RetArgs(t, "ITask", h, {v}, "error", NULL)
          /\ UNCHANGED <<objVars, crashed, rcVars, taskVars>>
       \/ /\ Resolves(h, "ITask") /\ Resolves(v, "IDynamicString")
          /\ Len(tags[h]) < MaxTags
          /\ tags' = [tags EXCEPT ![h] = Append(@, DynamicString_GetValue(HandleToPtr(v)).text)]
          /\ RetArgs(t, "ITask", h, {v}, "ok", NULL)
          /\ UNCHANGED <<objVars, lastError, crashed, rcVars, priority, status, metadata>>
       \/ /\ h # NULL /\ v # NULL
          /\ ~(Resolves(h, "ITask") /\ Resolves(v, "IDynamicString"))
          /\ \/ CrashArgs(t, "ITask", h, {v})
             \/ GarbageArgs(t, "ITask", h, {v})

\* try { obj->Complete(); } catch (const std::exception& e) { SetError(e.what()); }
ITask_Complete(t, h) ==
    /\ Step
    /\ \/ /\ h = NULL
          /\ NullHandlePath(t, "ITask")
       \/ /\ Resolves(h, "ITask")
          /\ \E outcome \in NativeOutcomes :
                \/ /\ outcome = "returns"
                   /\ status' = [status EXCEPT ![h] = StatusCompleted]
                   /\ RetVoid(t, "ITask", h, "ok")
                   /\ UNCHANGED <<objVars, lastError, crashed, rcVars, priority, tags, metadata>>
                \/ /\ outcome = "std::exception"
                   /\ Caught(t, "ITask", h)
                \/ /\ outcome = "other"
                   /\ Uncaught(t, "ITask", h)
       \/ /\ h # NULL /\ ~Resolves(h, "ITask")
          /\ \/ Crash(t, "ITask", h)
             \/ Garbage(t, "ITask", h)

\* try { return obj->IsOverdue(); } catch (const std::exception& e) { ...; return {}; }
ITask_IsOverdue(t, h) ==
    /\ Step
    /\ \/ /\ h = NULL
          /\ NullHandlePath(t, "ITask")
       \/ /\ Resolves(h, "ITask")
          /\ \E outcome \in NativeOutcomes :
                \/ /\ outcome = "returns"
                   /\ \E result \in {0, 1} : Ret(t, "ITask", h, "ok", NULL, <<>>, result)
                   /\ UNCHANGED <<objVars, lastError, crashed, rcVars, taskVars>>
                \/ /\ outcome = "std::exception"
                   /\ Caught(t, "ITask", h)
                \/ /\ outcome = "other"
                   /\ Uncaught(t, "ITask", h)
       \/ /\ h # NULL /\ ~Resolves(h, "ITask")
          /\ \/ Crash(t, "ITask", h)
             \/ Garbage(t, "ITask", h)

\* What the native GetMetadata returns, which the boundary passes on as the
\* handle: a dictionary holding the task's pairs as they are at the call.
NewDict(a, pairs) ==
    /\ kind' = [kind EXCEPT ![a] = "DictIterator"]
    /\ alive' = [alive EXCEPT ![a] = TRUE]
    /\ refs' = [refs EXCEPT ![a] = 1]
    /\ metadata' = [metadata EXCEPT ![a] = pairs]
    /\ UNCHANGED <<refCount, value, owner, destroyed>>

\* auto result = obj->GetMetadata(); return result;
ITask_GetMetadata(t, h) ==
    /\ Step
    /\ \/ /\ h = NULL
          /\ NullHandlePath(t, "ITask")
       \/ /\ Resolves(h, "ITask")
          /\ FreeAddrs # {}
          /\ NewDict(NewAddr, metadata[h])
          /\ Ret(t, "ITask", h, "ok", PtrToHandle(NewAddr), <<>>, 0)
          /\ UNCHANGED <<lastError, crashed, rcVars, priority, status, tags>>
       \/ /\ h # NULL /\ ~Resolves(h, "ITask")
          /\ \/ Crash(t, "ITask", h)
             \/ Garbage(t, "ITask", h)

\* std::unordered_map: the pair with this key replaced or added.
MapPut(pairs, k, v) == { p \in pairs : p[1] # k } \cup { <<k, v>> }

\* obj->SetMetadata(HandleToPtr<IDynamicString>(key)->GetValue(),
\*                  HandleToPtr<IDynamicString>(value)->GetValue()):
\* only the primary handle is checked before the two are dereferenced.
ITask_SetMetadata(t, h, key, v) ==
    /\ Step
    /\ \/ /\ h = NULL
          /\ NullHandlePath(t, "ITask")
       \/ /\ Resolves(h, "ITask")
          /\ Resolves(key, "IDynamicString") /\ Resolves(v, "IDynamicString")
          /\ metadata' = [metadata EXCEPT ![h] =
                            MapPut(@, DynamicString_GetValue(HandleToPtr(key)).text,
                                      DynamicString_GetValue(HandleToPtr(v)).text)]
          /\ RetArgs(t, "ITask", h, {key, v}, "ok", NULL)
          /\ UNCHANGED <<objVars, lastError, crashed, rcVars, priority, status, tags>>
       \/ /\ h # NULL
          /\ ~(/\ Resolves(h, "ITask")
               /\ Resolves(key, "IDynamicString")
               /\ Resolves(v, "IDynamicString"))
          /\ \/ CrashArgs(t, "ITask", h, {key, v})
             \/ GarbageArgs(t, "ITask", h, {key, v})

TaskManagerDict_Count(t, h) == Collection_Stub(t, "DictIterator", h)

\* TaskManagerDict_Reset: if (!handle) return; iter->current = 0.  The field
\* is 0 from construction and no function moves it, so on an iterator the
\* write changes nothing; on anything else it lands in foreign memory.
TaskManagerDict_Reset(t, h) ==
    /\ Step
    /\ \/ /\ h = NULL
          /\ Ret(t, "DictIterator", h, "quiet", NULL, <<>>, 0)
          /\ UNCHANGED <<objVars, lastError, crashed, rcVars, taskVars>>
       \/ /\ Resolves(h, "DictIterator")
          /\ RetVoid(t, "DictIterator", h, "ok")
          /\ UNCHANGED <<objVars, lastError, crashed, rcVars, taskVars>>
       \/ /\ h # NULL /\ ~Resolves(h, "DictIterator")
          /\ \/ Crash(t, "DictIterator", h)
             \/ Garbage(t, "DictIterator", h)

\* One task, made by the native side, and nothing else.
TaskObj == 1

InitTask ==
    /\ kind = [a \in Addr |-> IF a = TaskObj THEN "ITask" ELSE "free"]
    /\ alive = [a \in Addr |-> a = TaskObj]
    /\ refCount = [a \in Addr |-> 0]
    /\ value = [a \in Addr |-> <<>>]
    /\ owner = [a \in Addr |-> NULL]
    /\ destroyed = [a \in Addr |-> 0]
    /\ refs = [a \in Addr |-> IF a = TaskObj THEN 1 ELSE 0]
    /\ lastError = [t \in Threads |-> NoError]
    /\ call = NoCall
    /\ crashed = FALSE
    /\ steps = 0
    /\ priority = [a \in Addr |-> 0]
    /\ status = [a \in Addr |-> 0]
    /\ tags = [a \in Addr |-> <<>>]
    /\ metadata = [a \in Addr |-> {}]
    /\ rcImpl = "none"
    /\ rcPc = [t \in Threads |-> "idle"]
    /\ rcSeen = [t \in Threads |-> 0]
    /\ holds = [t \in Threads |-> 0]

NextTask ==
    \/ \E t \in Callers, h \in Handles : TaskManagerDict_Count(t, h)
    \/ \E t \in Callers, h \in Handles : TaskManagerDict_Next(t, h)
    \/ \E t \in Callers, h \in Handles : TaskManagerDict_Reset(t, h)
    \/ \E t \in Callers, v \in CStr : IDynamicString_Create(t, v)
    \/ \E t \in Callers, h \in Handles, v \in CStr : IDynamicString_SetValue(t, h, v)
    \/ \E t \in Callers, h \in Handles : IDynamicString_Release(t, h)
    \/ \E t \in Callers, h \in Handles : ITask_Getdescription(t, h)
    \/ \E t \in Callers, h, v \in Handles : ITask_Setdescription(t, h, v)
    \/ \E t \in Callers, h \in Handles : ITask_Getpriority(t, h)
    \/ \E t \in Callers, h \in Handles, v \in EnumInputs : ITask_Setpriority(t, h, v)
    \/ \E t \in Callers, h \in Handles, v \in EnumInputs : ITask_Setstatus(t, h, v)
    \/ \E t \in Callers, h \in Handles : ITask_Gettags_Count(t, h)
    \/ \E t \in Callers, h \in Handles, i \in 0..MaxTags : ITask_Gettags_Item(t, h, i)
    \/ \E t \in Callers, h \in Handles : ITask_Settags_Clear(t, h)
    \/ \E t \in Callers, h, v \in Handles : ITask_Settags_Add(t, h, v)
    \/ \E t \in Callers, h \in Handles : ITask_Complete(t, h)
    \/ \E t \in Callers, h \in Handles : ITask_IsOverdue(t, h)
    \/ \E t \in Callers, h \in Handles : ITask_GetMetadata(t, h)
    \/ \E t \in Callers, h, k, v \in Handles : ITask_SetMetadata(t, h, k, v)

SpecTask == InitTask /\ [][NextTask]_vars

----------------------------------------------------------------------------
(* Strings across the boundary: one task, its description and its tags,    *)
(* and the strings the caller makes, changes, passes in, gets back and     *)
(* releases.                                                               *)

NextStr ==
    \/ \E t \in Callers, v \in CStr : IDynamicString_Create(t, v)
    \/ \E t \in Callers, h \in Handles, v \in CStr : IDynamicString_SetValue(t, h, v)
    \/ \E t \in Callers, h \in Handles : IDynamicString_AddRef(t, h)
    \/ \E t \in Callers, h \in Handles : IDynamicString_Release(t, h)
    \/ \E t \in Callers, h \in Handles : ITask_Getdescription(t, h)
    \/ \E t \in Callers, h, v \in Handles : ITask_Setdescription(t, h, v)
    \/ \E t \in Callers, h \in Handles : ITask_Gettags_Count(t, h)
    \/ \E t \in Callers, h \in Handles, i \in 0..MaxTags : ITask_Gettags_Item(t, h, i)
    \/ \E t \in Callers, h \in Handles : ITask_Settags_Clear(t, h)
    \/ \E t \in Callers, h, v \in Handles : ITask_Settags_Add(t, h, v)

SpecStr == InitTask /\ [][NextStr]_vars

----------------------------------------------------------------------------
(* The strings alone: the caller makes strings, sets them, reads their     *)
(* text and their length, and counts references to them.                   *)

NextDyn ==
    \/ \E t \in Callers, v \in CStr : IDynamicString_Create(t, v)
    \/ \E t \in Callers, h \in Handles, v \in CStr : IDynamicString_SetValue(t, h, v)
    \/ \E t \in Callers, h \in Handles : IDynamicString_GetValue(t, h)
    \/ \E t \in Callers, h \in Handles : IDynamicString_GetLength(t, h)
    \/ \E t \in Callers, h \in Handles : IDynamicString_AddRef(t, h)
    \/ \E t \in Callers, h \in Handles : IDynamicString_Release(t, h)

SpecDyn == Init /\ [][NextDyn]_vars

----------------------------------------------------------------------------
(* Several threads on the error channel: g_lastError is thread_local, each *)
(* thread makes failing calls, successful calls and TaskManager_ClearError *)
(* in any order.                                                           *)

NextErr ==
    \/ \E t \in Threads, v \in CStr : IDynamicString_Create(t, v)
    \/ \E t \in Threads, h \in Handles : IDynamicString_GetLength(t, h)
    \/ \E t \in Threads : ITask_Create(t)
    \/ \E t \in Threads, h, v \in Handles : ITask_Setdescription(t, h, v)
    \/ \E t \in Threads : TaskManager_ClearError(t)

SpecErr == Init /\ [][NextErr]_vars

----------------------------------------------------------------------------
(* The claims *)

\* The last call returned the zero value of every return type.
ReturnedSentinel ==
    /\ call.rh = Sentinel.rh
    /\ call.rs = Sentinel.rs
    /\ call.rn = Sentinel.rn

\* The step is a T_Release call on handle h, of any class.
ReleaseCall(t, h) ==
    \/ IDynamicString_Release(t, h)
    \/ ITask_Release(t, h)
    \/ IProject_Release(t, h)
    \/ ITaskManager_Release(t, h)

\* C1: an object of any class with two references (created, then AddRef)
\* survives the Release of one of them: a Release on a live handle that
\* takes the references from 2 to 1 leaves the object alive.
C1_ReleaseKeepsDuplicate ==
    [][\A a \in Addr :
          (/\ alive[a]
           /\ refs[a] = 2
           /\ refs'[a] = 1
           /\ call'.arg = "live") => alive'[a]]_vars

\* C2: in a step of AddRef or Release on a live handle, delete runs on the
\* object exactly when its references go from 1 to 0, and no object is
\* destroyed while it has references left.
C2_DestroyedExactlyAtZero ==
    [][\A a \in Addr :
          call'.arg = "live" =>
             /\ (destroyed'[a] # destroyed[a]) <=> (refs[a] = 1 /\ refs'[a] = 0)
             /\ (kind'[a] # "free" /\ ~alive'[a]) => refs'[a] <= 0]_vars

\* C3: a call on a handle whose object has been destroyed fails: it takes an
\* error path, returns the sentinel and leaves a message in Last-Error.
C3_StaleHandleFails ==
    call.arg = "stale" =>
        /\ call.status = "error"
        /\ ReturnedSentinel
        /\ lastError[call.t] # NoError

\* C4: a second Release of the same handle is detected: the call takes an
\* error path and leaves a message in Last-Error.
C4_DoubleReleaseDetected ==
    [][\A t \in Threads, h \in Addr :
          (/\ kind[h] # "free"
           /\ ~alive[h]
           /\ destroyed[h] = 1
           /\ ReleaseCall(t, h)) =>
                /\ call'.status = "error"
                /\ lastError'[t] # NoError
                /\ destroyed'[h] = 1]_vars

\* C5: whatever AddRef and Release calls are made on an object, delete runs
\* on it at most once.
C5_DestroyedAtMostOnce == \A a \in Addr : destroyed[a] <= 1

\* C7: an object a container holds stays alive as long as the container is
\* alive and the callers have released no more handles to it than the
\* boundary returned to them.
C7_OwnedObjectSurvives ==
    \A a \in Addr :
        (/\ owner[a] # NULL
         /\ alive[owner[a]]
         /\ refs[a] >= 0) => alive[a]

\* C8: a call given a live handle of another class fails: it takes an error
\* path, returns the sentinel and leaves a message in Last-Error.
C8_TypeMismatchFails ==
    call.arg = "mistyped" =>
        /\ call.status = "error"
        /\ ReturnedSentinel
        /\ lastError[call.t] # NoError

\* C9: a call given the null handle returns the sentinel and leaves
\* "Null handle" in Last-Error.
C9_NullHandleReported ==
    call.arg = "null" =>
        /\ ReturnedSentinel
        /\ TaskManager_GetLastError(call.t) = ErrNullHandle

\* C10: after a call Last-Error is empty when the call succeeded and not
\* empty when it failed.
C10_LastErrorTracksLastCall ==
    /\ (call.status = "ok" /\ call.arg \in {"none", "live"}) =>
            TaskManager_GetLastError(call.t) = NoError
    /\ call.status = "error" => TaskManager_GetLastError(call.t) # NoError

(* C6, under SpecRC *)

RECURSIVE SumOver(_, _)
SumOver(f, S) ==
    IF S = {} THEN 0
    ELSE LET x == CHOOSE y \in S : TRUE
         IN f[x] + SumOver(f, S \ {x})

\* The references the threads own between them.
SumHolds == SumOver(holds, Threads)

\* C6: under every interleaving the object is deleted at most once, only by
\* the thread whose decrement took the count to zero, never while a thread
\* owns a reference, and it is deleted once every reference is released and
\* every Release has returned; at most one thread sees the count reach zero.
C6_ConcurrentRelease ==
    /\ destroyed[RcObj] <= 1
    /\ refCount[RcObj] = SumHolds
    /\ ~alive[RcObj] => (destroyed[RcObj] = 1 /\ SumHolds = 0)
    /\ Cardinality({ t \in Threads :
                       rcPc[t] = "test" /\ RC_Deletes(rcImpl, rcSeen[t]) }) <= 1
    /\ \A t \in Threads :
          (rcPc[t] = "test" /\ RC_Deletes(rcImpl, rcSeen[t])) =>
               (alive[RcObj] /\ SumHolds = 0)
    /\ (SumHolds = 0 /\ \A t \in Threads : rcPc[t] = "idle") => ~alive[RcObj]

\* Two threads are inside Release at once, one of them saw the count reach
\* zero and is about to delete the object.
C6_Witness ==
    \E t, u \in Threads :
        /\ t # u
        /\ rcPc[t] = "test" /\ rcPc[u] = "test"
        /\ RC_Deletes(rcImpl, rcSeen[t])
        /\ ~RC_Deletes(rcImpl, rcSeen[u])

(* C11, under SpecErr *)

\* C11: every thread's Last-Error starts empty, and a call made by one
\* thread, failing or not, leaves what TaskManager_GetLastError returns on
\* every other thread as it was.
C11_LastErrorPerThread ==
    /\ \A t \in Threads : TaskManager_GetLastError(t) = NoError
    /\ [][\A u \in Threads :
              u # call'.t => lastError'[u] = lastError[u]]_vars

\* Two threads hold different messages, and the third has just made a call.
C11_Witness ==
    \E t, u, w \in Threads :
        /\ t # u /\ w # t /\ w # u
        /\ lastError[t] = ErrNullHandle
        /\ lastError[u] = ErrNullValue
        /\ call.t = w
        /\ call.status = "error"

(* C12, C16, C17, C19 under SpecTask *)

\* C12: ITask_Setpriority or ITask_Setstatus on a live task with an integer
\* that is no declared enumerator leaves the priority and the status as they
\* were and leaves a message in Last-Error.
C12_InvalidEnumRejected ==
    [][\A t \in Threads, h \in Addr, v \in EnumInputs :
          /\ (/\ Resolves(h, "ITask")
              /\ v \notin DeclaredPriority
              /\ ITask_Setpriority(t, h, v)) =>
                   /\ priority'[h] = priority[h]
                   /\ lastError'[t] # NoError
          /\ (/\ Resolves(h, "ITask")
              /\ v \notin DeclaredStatus
              /\ ITask_Setstatus(t, h, v)) =>
                   /\ status'[h] = status[h]
                   /\ lastError'[t] # NoError]_vars

\* C16: a call on a live object that is given a null string handle as one
\* of its arguments (ITask_SetMetadata, ITask_Settags_Add,
\* ITask_Setdescription) takes an error path: the process survives it, the
\* call returns the sentinel and leaves a message in Last-Error.
C16_ArgumentHandlesValidated ==
    (call.arg = "live" /\ call.argv = "null") =>
        /\ ~crashed
        /\ call.status = "error"
        /\ ReturnedSentinel
        /\ lastError[call.t] # NoError

\* C17: however the native Complete or IsOverdue of a live task ends, the
\* boundary call returns to its caller, and when the native call failed it
\* returns the sentinel with a message in Last-Error.
C17_NativeFailureRecorded ==
    [][\A t \in Threads, h \in Addr :
          (/\ Resolves(h, "ITask")
           /\ (ITask_Complete(t, h) \/ ITask_IsOverdue(t, h))) =>
                /\ ~crashed'
                /\ call'.status \in {"ok", "error"}
                /\ call'.status = "error" =>
                      /\ lastError'[t] # NoError
                      /\ call'.rh = Sentinel.rh /\ call'.rn = Sentinel.rn]_vars

\* C19: the Count of a dictionary obtained from ITask_GetMetadata is the
\* number of pairs the task had when the dictionary was obtained, whatever
\* ITask_SetMetadata did since.
C19_SnapshotCount ==
    [][\A t \in Threads, d \in Addr :
          (/\ Resolves(d, "DictIterator")
           /\ TaskManagerDict_Count(t, d)) =>
                call'.rn = Cardinality(metadata[d])]_vars

(* C20 under Spec *)

\* The step is a T_Create call.
CreateCall(t) ==
    \/ \E v \in CStr : IDynamicString_Create(t, v)
    \/ ITask_Create(t)
    \/ IProject_Create(t)
    \/ ITaskManager_Create(t)

\* C20: every T_Create call returns a handle that is not null, to an object
\* that did not exist before the call and is alive after it, with one
\* reference.
C20_CreateReturnsObject ==
    [][\A t \in Threads :
          CreateCall(t) =>
              /\ call'.rh # NULL
              /\ call'.rh \in Addr =>
                    /\ kind[call'.rh] = "free"
                    /\ alive'[call'.rh]
                    /\ refs'[call'.rh] = 1]_vars

(* C13, C14, C15, C18 under SpecStr *)

\* The step is a call of a string getter of the task at h.
GetterCall(t, h) ==
    \/ ITask_Getdescription(t, h)
    \/ \E i \in 0..MaxTags : ITask_Gettags_Item(t, h, i)

\* The step is a call of a string setter of the task at h with the string v.
SetterCall(t, h, v) ==
    \/ ITask_Setdescription(t, h, v)
    \/ ITask_Settags_Add(t, h, v)

\* C13: ITask_Setdescription(h, s) on a live task with a live string stores
\* the content of s, and ITask_Getdescription(h) returns a string that did
\* not exist before (so it is none of the strings passed in) and holds the
\* content stored.
C13_StringRoundTrip ==
    [][\A t \in {call'.t}, h \in Addr :
          /\ \A s \in Addr :
                (/\ call'.argv = "live"
                 /\ Resolves(h, "ITask")
                 /\ Resolves(s, "IDynamicString")
                 /\ ITask_Setdescription(t, h, s)) =>
                      value'[h] = value[s]
          /\ (/\ call'.arg = "live" /\ call'.argv = "none"
              /\ Resolves(h, "ITask")
              /\ ITask_Getdescription(t, h)) =>
                   /\ call'.rh \in Addr
                   /\ kind[call'.rh] = "free"
                   /\ kind'[call'.rh] = "IDynamicString"
                   /\ alive'[call'.rh]
                   /\ value'[call'.rh] = value[h]]_vars

\* A description was set from a string holding "x" and then read back: the
\* string returned holds "x" and is not the string passed in.
C13_Witness ==
    /\ call.arg = "live" /\ call.argv = "none" /\ call.status = "ok"
    /\ call.rh \in Addr
    /\ tags[TaskObj] = <<>>
    /\ value[TaskObj] = <<"x">>
    /\ value[call.rh] = <<"x">>
    /\ \E s \in Addr \ {call.rh} : Resolves(s, "IDynamicString") /\ value[s] = <<"x">>

\* C14: a string getter that succeeds returns a string that did not exist
\* before, alive, with reference count 1, and leaves the task as it was; and
\* IDynamicString_SetValue or IDynamicString_Release on a live string leaves
\* the task's description and tags as they were.
C14_GetterAllocates ==
    [][\A t \in {call'.t}, h \in Addr :
          /\ (/\ call'.arg = "live" /\ call'.argv = "none" /\ call'.status = "ok"
              /\ Resolves(h, "ITask")
              /\ GetterCall(t, h)) =>
                   /\ call'.rh \in Addr
                   /\ kind[call'.rh] = "free"
                   /\ kind'[call'.rh] = "IDynamicString"
                   /\ alive'[call'.rh]
                   /\ refCount'[call'.rh] = 1
                   /\ value'[h] = value[h]
                   /\ tags'[h] = tags[h]
          /\ (/\ call'.arg = "live" /\ call'.argv = "none" /\ call'.status = "ok"
              /\ Resolves(h, "IDynamicString")
              /\ \/ IDynamicString_Release(t, h)
                 \/ \E v \in CStr : IDynamicString_SetValue(t, h, v)) =>
                   /\ alive'[TaskObj] = alive[TaskObj]
                   /\ value'[TaskObj] = value[TaskObj]
                   /\ tags'[TaskObj] = tags[TaskObj]]_vars

\* Two gets in a row gave two strings, both alive with count 1; the first was
\* changed to "x" in between and the second still holds the task's empty
\* description.
C14_Witness ==
    /\ call.arg = "live" /\ call.argv = "none" /\ call.status = "ok"
    /\ call.rh \in Addr
    /\ value[TaskObj] = <<>>
    /\ value[call.rh] = <<>>
    /\ refCount[call.rh] = 1
    /\ \E r \in Addr \ {call.rh} :
          /\ Resolves(r, "IDynamicString")
          /\ refCount[r] = 1
          /\ value[r] = <<"x">>

\* C15: a string setter called on a live task with a live string copies the
\* string's content and leaves the string as it was (alive, same count, same
\* content); and a later IDynamicString_SetValue on a string leaves the
\* task's description and tags as they were.
C15_SetterCopies ==
    [][\A t \in {call'.t}, h, v \in Addr :
          /\ (/\ call'.arg = "live" /\ call'.argv = "live"
              /\ Resolves(h, "ITask")
              /\ Resolves(v, "IDynamicString")
              /\ SetterCall(t, h, v)) =>
                   /\ alive'[v]
                   /\ refCount'[v] = refCount[v]
                   /\ destroyed'[v] = destroyed[v]
                   /\ value'[v] = value[v]
                   /\ \/ value'[h] = value[v] /\ tags'[h] = tags[h]
                      \/ value'[h] = value[h] /\ tags'[h] = Append(tags[h], value[v])
          /\ (/\ call'.arg = "live" /\ call'.argv = "none" /\ call'.status = "ok"
              /\ Resolves(v, "IDynamicString")
              /\ \E c \in CStr : IDynamicString_SetValue(t, v, c)) =>
                   /\ value'[TaskObj] = value[TaskObj]
                   /\ tags'[TaskObj] = tags[TaskObj]]_vars

\* The only string ever made was passed to a setter while it held "x" and
\* emptied afterwards: the task still holds "x" and the string is the
\* caller's, alive with count 1.
C15_Witness ==
    /\ \E v \in Addr :
          /\ Resolves(v, "IDynamicString")
          /\ refCount[v] = 1
          /\ value[v] = <<>>
          /\ \A a \in Addr \ {v, TaskObj} : kind[a] = "free"
    /\ value[TaskObj] = <<"x">> \/ tags[TaskObj] = << <<"x">> >>
    /\ call.arg = "live" /\ call.status = "ok"

\* C18: a call that fails on a null primary handle, or on a null value
\* handle in a setter, leaves every object, every count and every property
\* as it was, and the other threads' Last-Error too.
C18_FailedResolutionChangesNothing ==
    [][(/\ steps' # steps
        /\ \/ call'.arg = "null"
           \/ call'.argv = "null" /\ call'.status = "error") =>
            /\ UNCHANGED <<objVars, taskVars>>
            /\ ~crashed'
            /\ \A u \in Threads : u # call'.t => lastError'[u] = lastError[u]]_vars

\* A setter was called with a null value on a task that holds a description
\* and a tag.
C18_Witness ==
    /\ call.arg = "live" /\ call.argv = "null" /\ call.status = "error"
    /\ lastError[call.t] = ErrNullValue
    /\ value[TaskObj] = <<"x">>
    /\ Len(tags[TaskObj]) = 1

(* C21 under SpecStr *)

\* C21: on a live task, ITask_Gettags_Count returns the number of tags, and
\* ITask_Gettags_Item(h, i) with i at or past that number returns the null
\* handle, sets Last-Error to "Index out of bounds" and makes no object,
\* while with i below it returns a string that did not exist before and
\* holds the i-th tag.
C21_ItemBoundsChecked ==
    [][\A t \in {call'.t}, h \in Addr :
          /\ (/\ call'.arg = "live" /\ call'.argv = "none" /\ call'.status = "ok"
              /\ Resolves(h, "ITask")
              /\ ITask_Gettags_Count(t, h)) =>
                   call'.rn = Len(tags[h])
          /\ \A i \in 0..MaxTags :
                (/\ call'.arg = "live" /\ call'.argv = "none"
                 /\ Resolves(h, "ITask")
                 /\ ITask_Gettags_Item(t, h, i)) =>
                      IF i >= Len(tags[h])
                         THEN /\ call'.rh = NULL
                              /\ call'.status = "error"
                              /\ lastError'[t] = ErrIndexOutOfBounds
                              /\ UNCHANGED <<objVars, taskVars>>
                         ELSE /\ call'.rh \in Addr
                              /\ kind[call'.rh] = "free"
                              /\ kind'[call'.rh] = "IDynamicString"
                              /\ alive'[call'.rh]
                              /\ value'[call'.rh] = tags[h][i + 1]
                              /\ lastError' = lastError]_vars

\* The task has one tag and an item past it was asked for.
C21_Witness ==
    /\ call.arg = "live" /\ call.argv = "none" /\ call.status = "error"
    /\ lastError[call.t] = ErrIndexOutOfBounds
    /\ Len(tags[TaskObj]) = 1

(* C22 under SpecErr *)

\* C22: TaskManager_GetLastError returns the empty string while the thread
\* has had no error, and a TaskManager_ClearError call leaves the calling
\* thread's slot empty whatever it held (so a second call changes nothing
\* more), and nothing else changed.
C22_ClearErrorResets ==
    /\ \A t \in Threads : TaskManager_GetLastError(t) = NoError
    /\ [][\A t \in {call'.t} :
              (/\ call'.arg = "none" /\ call'.status = "ok" /\ call'.rh = NULL
               /\ TaskManager_ClearError(t)) =>
                    /\ lastError' = [lastError EXCEPT ![t] = NoError]
                    /\ lastError[t] = NoError => lastError' = lastError
                    /\ UNCHANGED <<objVars, taskVars>>]_vars

\* A thread has just cleared its slot while another thread still holds a
\* message.
C22_Witness ==
    /\ steps >= 2
    /\ call = [NoCall EXCEPT !.t = call.t]
    /\ TaskManager_GetLastError(call.t) = NoError
    /\ \E u \in Threads \ {call.t} : TaskManager_GetLastError(u) = ErrNullValue

(* C23, C26 under SpecStr *)

\* C23: whatever tags a live task has, ITask_Settags_Clear leaves it with
\* none, and every ITask_Settags_Add after it leaves the tags it found
\* followed by the content of the string added: after Clear and k Adds the
\* tags are the k contents in the order added, and nothing else.
C23_ClearThenAdd ==
    [][\A t \in {call'.t}, h \in Addr :
          /\ (/\ call'.arg = "live" /\ call'.argv = "none" /\ call'.status = "ok"
              /\ Resolves(h, "ITask")
              /\ ITask_Settags_Clear(t, h)) =>
                   /\ tags'[h] = <<>>
                   /\ Len(tags'[h]) = 0
          /\ \A v \in Addr :
                (/\ call'.arg = "live" /\ call'.argv = "live"
                 /\ Resolves(h, "ITask")
                 /\ Resolves(v, "IDynamicString")
                 /\ ITask_Settags_Add(t, h, v)) =>
                      tags'[h] = tags[h] \o << value[v] >>]_vars

\* The task had a tag, was cleared, and got the empty text added: that is
\* its only tag now.
C23_Witness ==
    /\ steps = MaxSteps
    /\ call.arg = "live" /\ call.argv = "live" /\ call.status = "ok"
    /\ tags[TaskObj] = << <<>> >>
    /\ \E v \in Addr :
          /\ Resolves(v, "IDynamicString")
          /\ value[v] = <<>>
          /\ \A a \in Addr \ {v, TaskObj} : kind[a] = "free"

\* C26: ITask_Settags_Add on a live task with a live string makes the tags
\* one longer, with the string's content last and every tag that was there
\* at its index, and changes no other property of the task nor the string.
C26_AddAppends ==
    [][\A t \in {call'.t}, h, v \in Addr :
          (/\ call'.arg = "live" /\ call'.argv = "live"
           /\ Resolves(h, "ITask")
           /\ Resolves(v, "IDynamicString")
           /\ ITask_Settags_Add(t, h, v)) =>
                /\ Len(tags'[h]) = Len(tags[h]) + 1
                /\ tags'[h][Len(tags[h]) + 1] = value[v]
                /\ \A i \in 1..Len(tags[h]) : tags'[h][i] = tags[h][i]
                /\ value'[h] = value[h]
                /\ priority'[h] = priority[h]
                /\ status'[h] = status[h]
                /\ metadata'[h] = metadata[h]
                /\ value'[v] = value[v]
                /\ refCount'[v] = refCount[v]]_vars

\* A second tag, different from the first, has just been added.
C26_Witness ==
    /\ call.arg = "live" /\ call.argv = "live" /\ call.status = "ok"
    /\ Len(tags[TaskObj]) = 2
    /\ tags[TaskObj][1] # tags[TaskObj][2]
    /\ value[TaskObj] = <<>>

(* C24 under SpecTask *)

\* C24: the first TaskManagerDict_Next on a dictionary that was just
\* obtained from ITask_GetMetadata with at least one entry in it returns
\* true.
C24_DictEnumerates ==
    [][\A t \in {call'.t}, d \in Addr :
          (/\ call.rh = d /\ call.status = "ok"
           /\ Resolves(d, "DictIterator")
           /\ metadata[d] # {}
           /\ TaskManagerDict_Next(t, d)) =>
                call'.rn = 1]_vars

\* C25: driven by the same sequence of AddRef and Release calls from a count
\* of 1, the wrapper's RefCounted<T> and the runtime's minimidl::RefCounted
\* hold the same count after every step and have been destroyed at the same
\* steps: never the one without the other.
C25_CountsEquivalent ==
    /\ refCount[WrapperObj] = refCount[RuntimeObj]
    /\ alive[WrapperObj] = alive[RuntimeObj]
    /\ destroyed[WrapperObj] = destroyed[RuntimeObj]

\* Both were destroyed, once, by the Release that followed at least one
\* AddRef and one earlier Release.
C25_Witness ==
    /\ destroyed[WrapperObj] = 1
    /\ destroyed[RuntimeObj] = 1
    /\ refCount[WrapperObj] = 0
    /\ steps >= 3
    /\ call.status = "ok"

\* The text a const char* argument supplies: its characters, none when the
\* pointer is null.
Supplied(v) == IF v.null THEN <<>> ELSE v.text

\* C27: for a live IDynamicString, Create and SetValue store the supplied
\* text (the empty text for a null pointer) and record no error, nothing
\* else changes the text of a string that stays alive, GetValue returns the
\* stored text, and GetLength returns the length of the text GetValue
\* returns.
C27_LengthAndValueAgree ==
    [][\A t \in {call'.t} :
         /\ \A v \in CStr :
              (call'.arg = "none" /\ IDynamicString_Create(t, v)) =>
                  /\ value'[call'.rh] = Supplied(v)
                  /\ lastError' = lastError
         /\ \A h \in Addr :
              (/\ Resolves(h, "IDynamicString")
               /\ alive'[h]) =>
                  /\ \A v \in CStr :
                       (call'.arg = "live" /\ IDynamicString_SetValue(t, h, v)) =>
                           /\ value'[h] = Supplied(v)
                           /\ lastError' = lastError
                  /\ value'[h] # value[h] =>
                       \E v \in CStr : IDynamicString_SetValue(t, h, v)
                  /\ (call'.arg = "live" /\ IDynamicString_GetValue(t, h)) =>
                       /\ call'.rs = value[h]
                       /\ lastError' = lastError
                  /\ (call'.arg = "live" /\ IDynamicString_GetLength(t, h)) =>
                       /\ call'.rn = Len(DynamicString_GetValue(h).text)
                       /\ lastError' = lastError]_vars

\* GetLength returned 1 for a live string that holds "x", after a string was
\* made from or set to a null pointer; no error was recorded.
C27_Witness ==
    /\ call.arg = "live"
    /\ call.status = "ok"
    /\ call.rn = 1
    /\ \E a \in Addr : Resolves(a, "IDynamicString") /\ value[a] = <<"x">>
    /\ \E a \in Addr : Resolves(a, "IDynamicString") /\ value[a] = <<>>
    /\ lastError[call.t] = NoError

\* C28: a string setter called with a null value records "Null handle" when
\* the primary handle is null too and "Null value" when it is not, returns
\* as failed, and leaves every object and every property of the task as it
\* was: the native setter was not invoked.
C28_HandleCheckedBeforeValue ==
    [][\A t \in {call'.t}, h \in Handles :
          (/\ call'.argv = "null"
           /\ SetterCall(t, h, NULL)) =>
                /\ call'.status = "error"
                /\ lastError'[t] = IF h = NULL THEN ErrNullHandle ELSE ErrNullValue
                /\ UNCHANGED <<objVars, taskVars>>
                /\ ~crashed']_vars

\* A setter was called with both handles null, on a task that holds a
\* description: "Null handle" is the error recorded.
C28_Witness ==
    /\ call.arg = "null"
    /\ call.argv = "null"
    /\ call.status = "error"
    /\ lastError[call.t] = ErrNullHandle
    /\ value[TaskObj] = <<"x">>

====
